---- MODULE Spec2Model ----
(***************************************************************************)
(* Birdfingers Package Manager (src/birdfingers_pkgmgr.py): the snapshot   *)
(* diff engine and the job runner.                                         *)
(*                                                                         *)
(*   SpecParse  parse_requirements_text applied to a pin text              *)
(*   SpecDiff   diff_envs applied to the parse results of two pin texts    *)
(*   SpecPlan   preview_snapshot_vs_current and preview_snapshot_vs_       *)
(*              snapshot over an environment and two snapshots             *)
(*   SpecJob    start_job_*, the _run_and_stream workers, the              *)
(*              /api/job/poll handler and the UI poller                    *)
(*   SpecPoll   the same server and workers, polled by clients that choose *)
(*              the job and the cursor of each request                     *)
(*   SpecWorkerFair, SpecServerFair   SpecPoll with fair worker threads,   *)
(*              and with a fair request handler                            *)
(*   SpecStore  save_snapshot, delete_snapshot, get_snapshot and          *)
(*              list_snapshots over the snapshot directory, while the      *)
(*              environment changes and the clock goes on                  *)
(*   SpecRestore  /api/job/restore and /api/job/poll over the files saves  *)
(*              and deletes leave in the snapshot directory                *)
(*                                                                         *)
(* A Python str is a sequence of one-character strings; a dict is a        *)
(* sequence of records with pairwise distinct keys, in insertion order.    *)
(* The server is an HTTPServer: it handles one request at a time, while    *)
(* the worker threads run beside it.                                       *)
(***************************************************************************)
EXTENDS Naturals, Sequences, FiniteSets, TLC

VARIABLES
    lines,        \* the lines the text was written from
    text,         \* the argument of parse_requirements_text
    parsed,       \* what parse_requirements_text returned
    cur_text,     \* the pin text of the source side (pip freeze, or snapshot a)
    target_text,  \* the pin text of the target side (the snapshot, or snapshot b)
    plan,         \* what diff_envs returned for the two parsed texts
    pc,           \* "call" before the function is applied, "return" after
    env,          \* the live environment: the text pip freeze prints
    snap_files,   \* SNAP_DIR: snapshot id -> its .json and .txt file
    clock,        \* datetime.utcnow(), to the second, as strftime prints it
    resp,         \* the response to the last request
    JOBS,         \* the job table: job id -> Job (registered or not yet created)
    JOBS_LOCK,    \* who holds the lock of the job table
    worker,       \* job id -> where that job's _run_and_stream thread is
    proc,         \* job id -> the subprocess: lines printed so far, exit status
    job_lock,     \* job id -> who holds job.lock
    handler,      \* the /api/job/* request the server is handling
    poller        \* the UI poller: the job it polls, jobPos, the text received

diffVars == <<lines, text, parsed, cur_text, target_text, plan, pc>>
storeVars == <<env, snap_files, clock>>
jobVars == <<JOBS, JOBS_LOCK, worker, proc, job_lock, handler, poller>>
vars == <<diffVars, storeVars, resp, jobVars>>

-----------------------------------------------------------------------------
(* Bounds of the model *)

MaxParseLines == 3   \* lines of a text handed to parse_requirements_text
MaxDiffLines == 2    \* lines of each of the two texts handed to diff_envs
MaxPlanLines == 2    \* lines of the environment and of each snapshot payload
MaxOutLines == 2     \* lines a job's subprocess prints before it ends
MaxCursor == 2       \* the largest cursor a client of its own choice sends

-----------------------------------------------------------------------------
(* Python values *)

\* Python's None; a one-element sequence, so that it is comparable with a str
\* and equal to none.
None == <<"None">>

NL == "\n"
EQEQ == <<"=", "=">>

\* ord(c) for the characters that occur in the texts of the model
Ord(c) ==
    CASE c = "\n" -> 10 [] c = " " -> 32 [] c = "#" -> 35 [] c = "-" -> 45
      [] c = "." -> 46 [] c = "0" -> 48 [] c = "1" -> 49 [] c = "2" -> 50
      [] c = "=" -> 61 [] c = "@" -> 64 [] c = "A" -> 65 [] c = "B" -> 66
      [] c = "a" -> 97 [] c = "b" -> 98 [] c = "e" -> 101

\* str.lower(), character by character
LowerChar(c) == CASE c = "A" -> "a" [] c = "B" -> "b" [] OTHER -> c

Lower(s) == [i \in 1..Len(s) |-> LowerChar(s[i])]

\* the characters str.strip() removes
IsSpace(c) == c \in {" ", "\t", "\n", "\r"}

\* s[i:] (0-based i, as in Python)
From(s, i) == SubSeq(s, i + 1, Len(s))

\* s.startswith(p)
StartsWith(s, p) == Len(s) >= Len(p) /\ SubSeq(s, 1, Len(p)) = p

\* s.find(p) + 1: the 1-based index of the first occurrence of p in s, 0 if none
Find(s, p) ==
    LET hits == {i \in 1..(Len(s) + 1 - Len(p)) : SubSeq(s, i, i + Len(p) - 1) = p}
    IN IF Len(s) < Len(p) \/ hits = {} THEN 0
       ELSE CHOOSE i \in hits : \A j \in hits : i <= j

\* p in s
Contains(s, p) == Find(s, p) # 0

\* s.strip()
Strip(s) ==
    LET keep == {i \in 1..Len(s) : ~IsSpace(s[i])}
    IN IF keep = {} THEN <<>>
       ELSE SubSeq(s, CHOOSE i \in keep : \A j \in keep : i <= j,
                      CHOOSE i \in keep : \A j \in keep : i >= j)

\* s.splitlines(): "\n" is the only line boundary among the model's characters;
\* a final line boundary opens no further line
RECURSIVE SplitLines(_)
SplitLines(s) ==
    IF s = <<>> THEN <<>>
    ELSE LET i == Find(s, <<NL>>)
         IN IF i = 0 THEN <<s>>
            ELSE <<SubSeq(s, 1, i - 1)>> \o SplitLines(From(s, i))

\* s.split("==", 1) for an s that contains "=="
SplitEqEq(s) ==
    LET i == Find(s, EQEQ)
    IN [name |-> SubSeq(s, 1, i - 1), ver |-> From(s, i + 1)]

\* a < b for two str: by code point, a proper prefix first
RECURSIVE StrLess(_, _)
StrLess(a, b) ==
    IF b = <<>> THEN FALSE
    ELSE IF a = <<>> THEN TRUE
    ELSE IF Head(a) = Head(b) THEN StrLess(Tail(a), Tail(b))
    ELSE Ord(Head(a)) < Ord(Head(b))

\* sorted(xs) for a sequence of str. The sorted sequence of given elements
\* is unique, so an insertion sort yields what Python's sort yields.
RECURSIVE Insert(_, _)
Insert(x, xs) ==
    IF xs = <<>> THEN <<x>>
    ELSE IF StrLess(x, Head(xs)) THEN <<x>> \o xs
    ELSE <<Head(xs)>> \o Insert(x, Tail(xs))

RECURSIVE Sorted(_)
Sorted(xs) == IF xs = <<>> THEN <<>> ELSE Insert(Head(xs), Sorted(Tail(xs)))

\* sep.join(xs)
RECURSIVE Join(_, _)
Join(sep, xs) ==
    IF xs = <<>> THEN <<>>
    ELSE IF Len(xs) = 1 THEN xs[1]
    ELSE xs[1] \o sep \o Join(sep, Tail(xs))

-----------------------------------------------------------------------------
(* dict: a sequence of [key, name, version] records with distinct keys *)

DictKeys(d) == {d[i].key : i \in 1..Len(d)}

\* the None that d.get(key) returns, written as an entry so that it is
\* comparable with one
NoEntry == [name |-> None, version |-> None]

\* d.get(key): the entry, or None
DictGet(d, key) ==
    IF key \in DictKeys(d)
    THEN LET i == CHOOSE i \in 1..Len(d) : d[i].key = key
         IN [name |-> d[i].name, version |-> d[i].version]
    ELSE NoEntry

\* DictSet with a slip: the first value of a key is kept (dict.setdefault)
DictSetKeepFirst(d, key, name, version) ==
    IF key \in DictKeys(d) THEN d
    ELSE Append(d, [key |-> key, name |-> name, version |-> version])

\* d[key] = {"name": name, "version": version}: an existing key keeps its
\* place and takes the new value, a new key goes last
DictSet(d, key, name, version) ==
    LET e == [key |-> key, name |-> name, version |-> version]
    IN IF key \in DictKeys(d)
       THEN [i \in 1..Len(d) |-> IF d[i].key = key THEN e ELSE d[i]]
       ELSE Append(d, e)

-----------------------------------------------------------------------------
(* parse_requirements_text *)

\* ParseLine with a slip: "==" is looked for before the editable/URL test
ParseLinePinFirst(acc, line) ==
    LET s == Strip(line)
    IN IF s = <<>> \/ StartsWith(s, <<"#">>) THEN acc
       ELSE IF Contains(s, EQEQ)
            THEN LET nv == SplitEqEq(s)
                 IN [acc EXCEPT !.pkgs = DictSet(@, Lower(nv.name), nv.name, nv.ver)]
       ELSE [acc EXCEPT !.others = Append(@, s)]

\* ParseLine with a slip: the key is the name as written, not lowercased
ParseLineNoLower(acc, line) ==
    LET s == Strip(line)
    IN IF s = <<>> \/ StartsWith(s, <<"#">>) THEN acc
       ELSE IF Contains(s, <<" ", "@", " ">>) \/ StartsWith(s, <<"-", "e", " ">>)
            THEN [acc EXCEPT !.others = Append(@, s)]
       ELSE IF Contains(s, EQEQ)
            THEN LET nv == SplitEqEq(s)
                 IN [acc EXCEPT !.pkgs = DictSet(@, nv.name, nv.name, nv.ver)]
       ELSE [acc EXCEPT !.others = Append(@, s)]

\* one iteration of the loop over the lines: acc is (pkgs, others)
ParseLine(acc, line) ==
    LET s == Strip(line)
    IN IF s = <<>> \/ StartsWith(s, <<"#">>) THEN acc
       ELSE IF Contains(s, <<" ", "@", " ">>) \/ StartsWith(s, <<"-", "e", " ">>)
            THEN [acc EXCEPT !.others = Append(@, s)]
       ELSE IF Contains(s, EQEQ)
            THEN LET nv == SplitEqEq(s)
                 IN [acc EXCEPT !.pkgs = DictSet(@, Lower(nv.name), nv.name, nv.ver)]
       ELSE [acc EXCEPT !.others = Append(@, s)]

RECURSIVE ParseLines(_, _)
ParseLines(acc, rest) ==
    IF rest = <<>> THEN acc
    ELSE ParseLines(ParseLine(acc, Head(rest)), Tail(rest))

parse_requirements_text(t) ==
    ParseLines([pkgs |-> <<>>, others |-> <<>>],
               SplitLines(IF t = None THEN <<>> ELSE t))

-----------------------------------------------------------------------------
(* diff_envs *)

\* DiffTarget with a slip: an upgrade loses its from version
DiffTargetNoFrom(acc, current_pkgs, tgt) ==
    LET cur == DictGet(current_pkgs, tgt.key)
    IN IF cur = NoEntry \/ cur.version # tgt.version
       THEN [acc EXCEPT !.installs =
                Append(@, [name |-> tgt.name, from |-> None, to |-> tgt.version])]
       ELSE [acc EXCEPT !.unchanged =
                Append(@, [name |-> tgt.name, version |-> tgt.version])]

\* DiffTarget with a slip: the versions are compared as lengths
DiffTargetLen(acc, current_pkgs, tgt) ==
    LET cur == DictGet(current_pkgs, tgt.key)
    IN IF cur = NoEntry
       THEN [acc EXCEPT !.installs =
                Append(@, [name |-> tgt.name, from |-> None, to |-> tgt.version])]
       ELSE IF Len(cur.version) = Len(tgt.version)
       THEN [acc EXCEPT !.installs =
                Append(@, [name |-> tgt.name, from |-> cur.version, to |-> tgt.version])]
       ELSE [acc EXCEPT !.unchanged =
                Append(@, [name |-> tgt.name, version |-> tgt.version])]

\* DiffTarget with a slip: an upgrade has its two versions the other way round
DiffTargetSwapped(acc, current_pkgs, tgt) ==
    LET cur == DictGet(current_pkgs, tgt.key)
    IN IF cur = NoEntry
       THEN [acc EXCEPT !.installs =
                Append(@, [name |-> tgt.name, from |-> None, to |-> tgt.version])]
       ELSE IF cur.version # tgt.version
       THEN [acc EXCEPT !.installs =
                Append(@, [name |-> tgt.name, from |-> tgt.version, to |-> cur.version])]
       ELSE [acc EXCEPT !.unchanged =
                Append(@, [name |-> tgt.name, version |-> tgt.version])]

\* the classification of one target entry (the body of the first loop)
DiffTarget(acc, current_pkgs, tgt) ==
    LET cur == DictGet(current_pkgs, tgt.key)
    IN IF cur = NoEntry
       THEN [acc EXCEPT !.installs =
                Append(@, [name |-> tgt.name, from |-> None, to |-> tgt.version])]
       ELSE IF cur.version # tgt.version
       THEN [acc EXCEPT !.installs =
                Append(@, [name |-> tgt.name, from |-> cur.version, to |-> tgt.version])]
       ELSE [acc EXCEPT !.unchanged =
                Append(@, [name |-> tgt.name, version |-> tgt.version])]

\* DiffCurrent with a slip: the test against the target is missing
DiffCurrentAll(acc, target_pkgs, cur) ==
    [acc EXCEPT !.uninstalls = Append(@, [name |-> cur.name, from |-> cur.version])]

\* DiffCurrent with a slip: the uninstall is named by the key
DiffCurrentKey(acc, target_pkgs, cur) ==
    IF cur.key \notin DictKeys(target_pkgs)
    THEN [acc EXCEPT !.uninstalls = Append(@, [name |-> cur.key, from |-> cur.version])]
    ELSE acc

\* the body of the second loop, for one entry of the source
DiffCurrent(acc, target_pkgs, cur) ==
    IF cur.key \notin DictKeys(target_pkgs)
    THEN [acc EXCEPT !.uninstalls = Append(@, [name |-> cur.name, from |-> cur.version])]
    ELSE acc

RECURSIVE DiffTargets(_, _, _)
DiffTargets(acc, current_pkgs, rest) ==
    IF rest = <<>> THEN acc
    ELSE DiffTargets(DiffTarget(acc, current_pkgs, Head(rest)), current_pkgs, Tail(rest))

RECURSIVE DiffCurrents(_, _, _)
DiffCurrents(acc, target_pkgs, rest) ==
    IF rest = <<>> THEN acc
    ELSE DiffCurrents(DiffCurrent(acc, target_pkgs, Head(rest)), target_pkgs, Tail(rest))

diff_envs(current_pkgs, target_pkgs) ==
    DiffCurrents(
        DiffTargets([installs |-> <<>>, uninstalls |-> <<>>, unchanged |-> <<>>],
                    current_pkgs, target_pkgs),
        target_pkgs, current_pkgs)

-----------------------------------------------------------------------------
(* The texts the specifications draw their inputs from *)

\* the text of the lines ls, each ended by a line boundary (as pip freeze
\* and the snapshot files have them)
RECURSIVE TextOf(_)
TextOf(ls) == IF ls = <<>> THEN <<>> ELSE Head(ls) \o <<NL>> \o TextOf(Tail(ls))

SeqsUpTo(S, n) == UNION {[1..k -> S] : k \in 0..n}

NameA == <<"a">>
NameUpperA == <<"A">>
NameB == <<"b">>
NameUpperB == <<"B">>
NameE == <<"e">>
V1 == <<"1">>
V2 == <<"2">>
V10 == <<"1", ".", "0">>
V100 == <<"1", ".", "0", "0">>

Pin(name, ver) == name \o EQEQ \o ver

\* lines that are exactly a name, "==" and a version
PinNames == {NameA, NameUpperA, NameB}
PinVersions == {V1, V2}
PinOnlyLines == {Pin(n, v) : n \in PinNames, v \in PinVersions}

\* the other shapes of line parse_requirements_text tells apart
BlankLine == <<>>
SpacesLine == <<" ", " ">>
CommentLine == <<"#", " ">> \o Pin(NameA, V1)
EditableLine == <<"-", "e", " ">> \o Pin(NameA, V1)
UrlLine == NameB \o <<" ", "@", " ">> \o Pin(NameA, V1)
BareNameLine == NameB
PaddedPinLine == <<" ">> \o Pin(NameB, V2) \o <<" ">>
NoVersionLine == NameA \o EQEQ
DashELine == <<"-", "e">> \o Pin(NameA, V1)

OddLines ==
    { BlankLine, SpacesLine, CommentLine, EditableLine, UrlLine, BareNameLine,
      PaddedPinLine, NoVersionLine, DashELine }

ParseLineSet == PinOnlyLines \cup OddLines

DiffLineSet ==
    { Pin(NameA, V10), Pin(NameUpperA, V10), Pin(NameA, V100),
      Pin(NameB, V10), Pin(NameUpperB, V100), Pin(NameE, V10) }
DiffTexts == {TextOf(ls) : ls \in SeqsUpTo(DiffLineSet, MaxDiffLines)}

-----------------------------------------------------------------------------
(* The state the pure-function specifications leave alone *)

\* the values of parsed and plan before anything is returned
NoParse == [pkgs |-> <<>>, others |-> <<>>]
NoPlan == [installs |-> <<>>, uninstalls |-> <<>>, unchanged |-> <<>>]

NoResp == [status |-> 0]
\* a file that does not exist; a .txt file holds a text, a .json file, as a
\* one-element sequence, the metadata
NoFile == <<"NoFile">>
NoJson == <<>>
NoSnapshot == [json |-> NoJson, txt |-> NoFile]

\* two seconds of the clock, as strftime prints them
Sec1 == <<"0", "1">>
Sec2 == <<"0", "2">>
Seconds == {Sec1, Sec2}

\* the names a user gives to a snapshot
SnapNames == { <<"e", " ", "v">>, <<"e", "_", "v">> }

\* the characters re.sub leaves in a name: [A-Za-z0-9_.-]
SafeChars ==
    {"a", "b", "c", "d", "e", "f", "g", "h", "i", "j", "k", "l", "m",
     "n", "o", "p", "q", "r", "s", "t", "u", "v", "w", "x", "y", "z",
     "A", "B", "C", "D", "E", "F", "G", "H", "I", "J", "K", "L", "M",
     "N", "O", "P", "Q", "R", "S", "T", "U", "V", "W", "X", "Y", "Z",
     "0", "1", "2", "3", "4", "5", "6", "7", "8", "9", "_", ".", "-"}

\* re.sub(r"[^A-Za-z0-9_.-]+", "_", s): each run of other characters
\* becomes one "_"
RECURSIVE SubUnsafe(_, _)
SubUnsafe(s, inRun) ==
    IF s = <<>> THEN <<>>
    ELSE IF Head(s) \in SafeChars THEN <<Head(s)>> \o SubUnsafe(Tail(s), FALSE)
    ELSE IF inRun THEN SubUnsafe(Tail(s), TRUE)
    ELSE <<"_">> \o SubUnsafe(Tail(s), TRUE)

SafeNameLen == 60
DefaultName == <<"s", "n", "a", "p", "s", "h", "o", "t">>

\* _safe_name(s)
SafeName(s) ==
    LET t == IF Strip(s) = <<>> THEN DefaultName ELSE Strip(s)
        u == SubUnsafe(t, FALSE)
    IN SubSeq(u, 1, IF Len(u) < SafeNameLen THEN Len(u) ELSE SafeNameLen)

\* base = f"{_safe_name(name) or 'snapshot'}_{ts}", the id of the snapshot
Base(name, ts) ==
    (IF SafeName(name) = <<>> THEN DefaultName ELSE SafeName(name)) \o <<"_">> \o ts

\* the ids of the snapshots that can be in SNAP_DIR
SnapIds == {Base(n, t) : n \in SnapNames, t \in Seconds}

JobIds == {"j1", "j2"}

\* Job.__init__: text = "", done = False, returncode = None (the empty set;
\* an exit status rc is {rc}); registered is membership in JOBS. kind, args
\* and started are written here and read nowhere.
NewJob == [registered |-> TRUE, text |-> <<>>, done |-> FALSE, returncode |-> {}]
NoJob == [registered |-> FALSE, text |-> <<>>, done |-> FALSE, returncode |-> {}]
\* the worker thread and the subprocess of a job: how many threads were
\* started for it, how many times the command was started, the lines the
\* process has printed (in the order it printed them), its exit status; cmd
\* is the command the thread was started with
NoProc == [threads |-> 0, cmd |-> <<>>, launched |-> 0, printed |-> <<>>, status |-> {}]
\* client is who sent the request: "ui" the UI poller, "any" another client;
\* cmd is the local variable cmd of start_job_*
IdleHandler == [pc |-> "idle", client |-> "", job_id |-> "", pos |-> 0,
                text |-> <<>>, newpos |-> 0, done |-> FALSE, cmd |-> <<>>]
\* currentJob = null, jobPos = 0, pollTimer = null
NoPoller == [job_id |-> "", pollTimer |-> FALSE, jobPos |-> 0, out |-> <<>>]

IdleJobs ==
    /\ JOBS = [j \in JobIds |-> NoJob]
    /\ JOBS_LOCK = "free"
    /\ worker = [j \in JobIds |-> "none"]
    /\ proc = [j \in JobIds |-> NoProc]
    /\ job_lock = [j \in JobIds |-> "free"]
    /\ handler = IdleHandler
    /\ poller = NoPoller

IdleStore ==
    /\ env = <<>>
    /\ snap_files = [id \in SnapIds |-> NoSnapshot]
    /\ clock = Sec1
    /\ resp = NoResp
    /\ IdleJobs

IdleDiff ==
    /\ lines = <<>> /\ text = <<>> /\ parsed = NoParse
    /\ cur_text = <<>> /\ target_text = <<>> /\ plan = NoPlan
    /\ pc = "idle"

-----------------------------------------------------------------------------
(* SpecParse: parse_requirements_text applied to a text *)


InitParse ==
    /\ lines \in SeqsUpTo(ParseLineSet, MaxParseLines)
    /\ text \in IF lines = <<>> THEN {<<>>, None} ELSE {TextOf(lines)}
    /\ parsed = NoParse
    /\ pc = "call"
    /\ cur_text = <<>> /\ target_text = <<>> /\ plan = NoPlan
    /\ IdleStore

Parse ==
    /\ pc = "call"
    /\ pc' = "return"
    /\ parsed' = parse_requirements_text(text)
    /\ UNCHANGED <<lines, text, cur_text, target_text, plan, storeVars, resp, jobVars>>

NextParse == Parse

SpecParse == InitParse /\ [][NextParse]_vars

-----------------------------------------------------------------------------
(* SpecDiff: diff_envs applied to two parsed texts *)

InitDiff ==
    /\ cur_text \in DiffTexts
    /\ target_text \in DiffTexts
    /\ plan = NoPlan
    /\ pc = "call"
    /\ lines = <<>> /\ text = <<>> /\ parsed = NoParse
    /\ IdleStore

DiffEnvs ==
    /\ pc = "call"
    /\ pc' = "return"
    /\ plan' = diff_envs(parse_requirements_text(cur_text).pkgs,
                         parse_requirements_text(target_text).pkgs)
    /\ UNCHANGED <<lines, text, parsed, cur_text, target_text, storeVars, resp, jobVars>>

NextDiff == DiffEnvs

SpecDiff == InitDiff /\ [][NextDiff]_vars

-----------------------------------------------------------------------------
(* Snapshots and the two previews *)

\* count = len([l for l in req_text.splitlines() if l and not l.startswith("#")])
CountLines(t) ==
    LET ls == SplitLines(t)
    IN Cardinality({i \in 1..Len(ls) : ls[i] # <<>> /\ ~StartsWith(ls[i], <<"#">>)})

\* the metadata save_snapshot writes: id, name, created_utc and count (the
\* other fields are the same for every snapshot); readable: json.load
\* loads the file
MetaOf(id, name, ts, count) ==
    [readable |-> TRUE, id |-> id, name |-> name, created_utc |-> ts, count |-> count]

\* a .json file json.load raises on: the file of a json.dump that raised
CorruptMeta ==
    [readable |-> FALSE, id |-> <<>>, name |-> <<>>, created_utc |-> <<>>, count |-> 0]

\* get_snapshot with a slip: one of the two files is enough
get_snapshot_either(id) ==
    IF ~(snap_files[id].json # NoJson \/ snap_files[id].txt # NoFile)
    THEN [found |-> FALSE, raised |-> FALSE, meta |-> NoJson, req_path |-> None]
    ELSE IF snap_files[id].json = NoJson \/ ~snap_files[id].json[1].readable
    THEN [found |-> FALSE, raised |-> TRUE, meta |-> NoJson, req_path |-> None]
    ELSE [found |-> TRUE, raised |-> FALSE, meta |-> snap_files[id].json, req_path |-> id]

\* get_snapshot(id_): (None, None) unless both files exist, else (meta,
\* req_path), unless json.load raises; found and raised tell the three apart
get_snapshot(id) ==
    IF ~(snap_files[id].json # NoJson /\ snap_files[id].txt # NoFile)
    THEN [found |-> FALSE, raised |-> FALSE, meta |-> NoJson, req_path |-> None]
    ELSE IF ~snap_files[id].json[1].readable
    THEN [found |-> FALSE, raised |-> TRUE, meta |-> NoJson, req_path |-> None]
    ELSE [found |-> TRUE, raised |-> FALSE, meta |-> snap_files[id].json, req_path |-> id]

\* freeze_requirements(): what pip freeze prints
freeze_requirements == env

UNINSTALL_CMD == "python -m pip uninstall -y "
INSTALL_CMD == "python -m pip install "

\* [x["name"] for x in xs]
NameList(xs) == [i \in 1..Len(xs) |-> xs[i].name]

\* PlanCommands with a slip: the uninstall names are not sorted
PlanCommandsUnsorted(d) ==
    (IF d.uninstalls # <<>>
     THEN << <<UNINSTALL_CMD>> \o Join(<<" ">>, NameList(d.uninstalls)) >>
     ELSE <<>>)
    \o [i \in 1..Len(d.installs) |->
            <<INSTALL_CMD>> \o d.installs[i].name \o EQEQ \o d.installs[i].to]

\* cmds, as both previews build it from the result d of diff_envs. A command
\* is its literal head followed by the characters of the rest.
PlanCommands(d) ==
    (IF d.uninstalls # <<>>
     THEN << <<UNINSTALL_CMD>> \o Join(<<" ">>, Sorted(NameList(d.uninstalls))) >>
     ELSE <<>>)
    \o [i \in 1..Len(d.installs) |->
            <<INSTALL_CMD>> \o d.installs[i].name \o EQEQ \o d.installs[i].to]

\* PreviewBody with a slip: the other lines of the target are installed too
PreviewBodyOthers(op, src, tgt) ==
    LET d == diff_envs(src.pkgs, tgt.pkgs)
    IN [status |-> 200, op |-> op,
        counts |-> [install |-> Len(d.installs), uninstall |-> Len(d.uninstalls),
                    unchanged |-> Len(d.unchanged),
                    other_source |-> IF op = "preview" THEN 0 ELSE Len(src.others),
                    other_target |-> Len(tgt.others)],
        installs |-> d.installs, uninstalls |-> d.uninstalls, unchanged |-> d.unchanged,
        commands |-> PlanCommands(d)
                     \o [i \in 1..Len(tgt.others) |-> <<INSTALL_CMD>> \o tgt.others[i]]]

\* the dict both previews return, from the parse results of the two sides
PreviewBody(op, src, tgt) ==
    LET d == diff_envs(src.pkgs, tgt.pkgs)
    IN [status |-> 200, op |-> op,
        counts |-> [install |-> Len(d.installs), uninstall |-> Len(d.uninstalls),
                    unchanged |-> Len(d.unchanged),
                    other_source |-> IF op = "preview" THEN 0 ELSE Len(src.others),
                    other_target |-> Len(tgt.others)],
        installs |-> d.installs, uninstalls |-> d.uninstalls, unchanged |-> d.unchanged,
        commands |-> PlanCommands(d)]

NotFound == [status |-> 404]

\* an exception leaves the handler: the connection is closed with no response
NoReply == [status |-> 0, raised |-> TRUE]

\* GET /api/snapshot/preview: preview_snapshot_vs_current(id_)
preview_snapshot_vs_current(id) ==
    /\ resp' = IF get_snapshot(id).raised THEN NoReply
               ELSE IF ~get_snapshot(id).found THEN NotFound
               ELSE PreviewBody("preview",
                                parse_requirements_text(freeze_requirements),
                                parse_requirements_text(snap_files[id].txt))
    /\ UNCHANGED <<diffVars, storeVars, jobVars>>

\* GET /api/snapshot/diff: preview_snapshot_vs_snapshot(a_id, b_id)
preview_snapshot_vs_snapshot(a, b) ==
    /\ resp' = IF get_snapshot(a).raised \/ get_snapshot(b).raised THEN NoReply
               ELSE IF ~(get_snapshot(a).found /\ get_snapshot(b).found) THEN NotFound
               ELSE PreviewBody("diff",
                                parse_requirements_text(snap_files[a].txt),
                                parse_requirements_text(snap_files[b].txt))
    /\ UNCHANGED <<diffVars, storeVars, jobVars>>

\* pip freeze prints one pin per installed package: the texts of the
\* environment and of the snapshot payloads name no package twice
PlanLineSet == { Pin(NameB, V1), Pin(NameUpperA, V1), Pin(NameA, V2), Pin(NameE, V2) }
FreezeLines ==
    {ls \in SeqsUpTo(PlanLineSet, MaxPlanLines) :
        \A i, j \in 1..Len(ls) :
            Lower(SplitEqEq(ls[i]).name) = Lower(SplitEqEq(ls[j]).name) => i = j}
PlanTexts == {TextOf(ls) : ls \in FreezeLines}

\* the metadata of snapshot id as save_snapshot wrote it with payload t
SavedMeta(id, t) ==
    LET k == CHOOSE k \in SnapNames \X Seconds : Base(k[1], k[2]) = id
    IN MetaOf(id, k[1], k[2], CountLines(t))

\* each snapshot as save_snapshot leaves it (both files), or not there
InitPlan ==
    /\ env \in PlanTexts
    /\ \E t \in [SnapIds -> PlanTexts \cup {NoFile}] :
          snap_files = [id \in SnapIds |->
                           IF t[id] = NoFile THEN NoSnapshot
                           ELSE [json |-> <<SavedMeta(id, t[id])>>, txt |-> t[id]]]
    /\ clock = Sec2
    /\ resp = NoResp
    /\ IdleDiff
    /\ IdleJobs

NextPlan ==
    \/ \E id \in SnapIds : preview_snapshot_vs_current(id)
    \/ \E a, b \in SnapIds : preview_snapshot_vs_snapshot(a, b)

SpecPlan == InitPlan /\ [][NextPlan]_vars

-----------------------------------------------------------------------------
(* The snapshot directory *)

\* the two files of a snapshot: the metadata (.json) and the payload (.txt)
SnapFiles == {"json", "txt"}

\* os.path.exists of file f of a snapshot whose files are s
Exists(s, f) == IF f = "json" THEN s.json # NoJson ELSE s.txt # NoFile

\* the files s without file f
Without(s, f) == IF f = "json" THEN [s EXCEPT !.json = NoJson] ELSE [s EXCEPT !.txt = NoFile]

\* one turn of the loop of delete_snapshot, on file f: if os.path.exists(p):
\* os.remove(p), and ok = False if that raises. raises holds the files whose
\* removal raises.
RemoveFile(st, f, raises) ==
    IF ~Exists(st.files, f) THEN st
    ELSE IF f \in raises THEN [st EXCEPT !.ok = FALSE]
    ELSE [st EXCEPT !.files = Without(@, f)]

\* RemoveFiles with a slip: the loop ends at the first removal that raises
RemoveFilesUntilRaise(s, raises) ==
    LET first == RemoveFile([files |-> s, ok |-> TRUE], "json", raises)
    IN IF first.ok THEN RemoveFile(first, "txt", raises) ELSE first

\* ok = True; for p in (meta_path, req_path): ..., from the files s
RemoveFiles(s, raises) ==
    RemoveFile(RemoveFile([files |-> s, ok |-> TRUE], "json", raises), "txt", raises)

\* POST /api/snapshot/delete: delete_snapshot(id_) where the removals of the
\* files in raises raise, and the response with ok
DeleteWith(id, raises) ==
    LET end == RemoveFiles(snap_files[id], raises)
    IN /\ snap_files' = [snap_files EXCEPT ![id] = end.files]
       /\ resp' = [status |-> 200, ok |-> end.ok]
       /\ UNCHANGED <<env, clock, diffVars, jobVars>>

delete_snapshot(id) == \E raises \in SUBSET SnapFiles : DeleteWith(id, raises)

\* what pip freeze prints for the environments of the store: a pin; a pin and
\* a package installed from a URL; an editable install under its comment
\* line, and a pin
StoreLines ==
    { <<Pin(NameA, V1)>>,
      <<Pin(NameA, V1), UrlLine>>,
      <<CommentLine, EditableLine, Pin(NameB, V2)>> }
StoreTexts == {TextOf(ls) : ls \in StoreLines}

\* how the two writes of save_snapshot end: both done, or open() or the
\* write of the payload raises, or open() or json.dump of the metadata raises
SaveOutcomes ==
    {"written", "txt_open_raises", "txt_write_raises", "json_open_raises", "json_dump_raises"}

\* WriteFiles with a slip: the metadata is written before the payload
WriteFilesMetaFirst(s, meta, req_text, outcome) ==
    IF outcome = "json_open_raises" THEN s
    ELSE IF outcome = "json_dump_raises" THEN [s EXCEPT !.json = <<CorruptMeta>>]
    ELSE IF outcome = "txt_open_raises" THEN [s EXCEPT !.json = <<meta>>]
    ELSE IF outcome = "txt_write_raises" THEN [json |-> <<meta>>, txt |-> <<>>]
    ELSE [json |-> <<meta>>, txt |-> req_text]

\* the try block of save_snapshot, from the files s of the id: the payload is
\* written, then the metadata. open(path, "w") empties a file that exists; a
\* write that raises leaves it empty, a json.dump that raises leaves a file
\* json.load cannot load
WriteFiles(s, meta, req_text, outcome) ==
    IF outcome = "txt_open_raises" THEN s
    ELSE IF outcome = "txt_write_raises" THEN [s EXCEPT !.txt = <<>>]
    ELSE IF outcome = "json_open_raises" THEN [s EXCEPT !.txt = req_text]
    ELSE IF outcome = "json_dump_raises" THEN [json |-> <<CorruptMeta>>, txt |-> req_text]
    ELSE [json |-> <<meta>>, txt |-> req_text]

SNAP_DIR == "snapshots"

\* the RuntimeError of save_snapshot, as the handler answers it
StorageError ==
    [status |-> 500, error |-> <<"Failed to write snapshot files in ", SNAP_DIR>>,
     dir |-> SNAP_DIR]

\* POST /api/snapshot/save: save_snapshot(name, comment) at the second the
\* clock shows, and the response: the metadata, or 500
save_snapshot(name, outcome) ==
    LET id == Base(name, clock)
        req_text == freeze_requirements
        meta == MetaOf(id, name, clock, CountLines(req_text))
    IN /\ snap_files' = [snap_files EXCEPT ![id] = WriteFiles(@, meta, req_text, outcome)]
       /\ resp' = IF outcome = "written" THEN [status |-> 200, meta |-> meta]
                  ELSE StorageError
       /\ UNCHANGED <<env, clock, diffVars, jobVars>>

\* GET /api/snapshot/view: get_snapshot, 404 without a meta, else the payload
snapshot_view(id) ==
    /\ resp' = IF get_snapshot(id).raised THEN NoReply
               ELSE IF ~get_snapshot(id).found THEN NotFound
               ELSE [status |-> 200, text |-> snap_files[id].txt]
    /\ UNCHANGED <<diffVars, storeVars, jobVars>>

\* the loop of list_snapshots over os.listdir, which names the ids in the
\* order order: the .json files json.load loads, in that order
RECURSIVE LoadMetas(_)
LoadMetas(order) ==
    IF order = <<>> THEN <<>>
    ELSE (IF snap_files[Head(order)].json # NoJson /\ snap_files[Head(order)].json[1].readable
          THEN snap_files[Head(order)].json
          ELSE <<>>)
         \o LoadMetas(Tail(order))

\* InsertDesc with a slip: the oldest comes first
RECURSIVE InsertAsc(_, _)
InsertAsc(m, ms) ==
    IF ms = <<>> THEN <<m>>
    ELSE IF StrLess(m.created_utc, Head(ms).created_utc) THEN <<m>> \o ms
    ELSE <<Head(ms)>> \o InsertAsc(m, Tail(ms))

\* m put into ms, which is in descending order of created_utc, behind the
\* entries that are not older
RECURSIVE InsertDesc(_, _)
InsertDesc(m, ms) ==
    IF ms = <<>> THEN <<m>>
    ELSE IF StrLess(Head(ms).created_utc, m.created_utc) THEN <<m>> \o ms
    ELSE <<Head(ms)>> \o InsertDesc(m, Tail(ms))

\* metas.sort(key=lambda m: m.get("created_utc", ""), reverse=True): a
\* stable sort
RECURSIVE SortDesc(_)
SortDesc(ms) ==
    IF ms = <<>> THEN <<>>
    ELSE InsertDesc(ms[Len(ms)], SortDesc(SubSeq(ms, 1, Len(ms) - 1)))

list_snapshots(order) == SortDesc(LoadMetas(order))

\* the orders os.listdir may name the ids in
ListOrders ==
    {o \in [1..Cardinality(SnapIds) -> SnapIds] : \A i, j \in DOMAIN o : o[i] = o[j] => i = j}

\* GET /api/snapshots
snapshots_list ==
    /\ \E order \in ListOrders : resp' = [status |-> 200, items |-> list_snapshots(order)]
    /\ UNCHANGED <<diffVars, storeVars, jobVars>>

\* pip, run by a job or by hand, changes what is installed
EnvChange(t) ==
    /\ t # env
    /\ env' = t
    /\ UNCHANGED <<snap_files, clock, resp, diffVars, jobVars>>

\* the clock goes on to the next second
Tick ==
    /\ clock = Sec1
    /\ clock' = Sec2
    /\ UNCHANGED <<env, snap_files, resp, diffVars, jobVars>>

\* an environment and an empty snapshot directory
InitStore ==
    /\ env \in StoreTexts
    /\ snap_files = [id \in SnapIds |-> NoSnapshot]
    /\ clock = Sec1
    /\ resp = NoResp
    /\ IdleDiff
    /\ IdleJobs

NextStore ==
    \/ \E name \in SnapNames, outcome \in SaveOutcomes : save_snapshot(name, outcome)
    \/ \E id \in SnapIds : delete_snapshot(id)
    \/ \E id \in SnapIds : snapshot_view(id)
    \/ snapshots_list
    \/ \E id \in SnapIds : preview_snapshot_vs_current(id)
    \/ \E a, b \in SnapIds : preview_snapshot_vs_snapshot(a, b)
    \/ \E t \in StoreTexts : EnvChange(t)
    \/ Tick

SpecStore == InitStore /\ [][NextStore]_vars

-----------------------------------------------------------------------------
(* The job runner *)

\* the lines a subprocess may print (text mode: each ends with a line boundary)
OutLines == { <<"a", NL>>, <<"b", "e", NL>> }

\* the exit statuses a subprocess may end with
ExitCodes == {0, 1}

othersUnchanged == UNCHANGED <<diffVars, storeVars>>

sys_executable == "python"

\* the cmd lists of start_job_install_exact and start_job_restore_requirements
InstallCmd(pkg, ver) == <<sys_executable, "-m", "pip", "install", pkg \o EQEQ \o ver>>
\* RestoreCmd with a slip: the -r is missing
RestoreCmdNoR(req_path) == <<sys_executable, "-m", "pip", "install", req_path>>
RestoreCmd(req_path) == <<sys_executable, "-m", "pip", "install", "-r", req_path>>

\* register_job with a slip: the id may be one JOBS already holds
register_job_any ==
    /\ handler.pc = "idle"
    /\ JOBS_LOCK = "free"
    /\ \E j \in JobIds :
          /\ JOBS' = [JOBS EXCEPT ![j] = NewJob]
          /\ handler' = [IdleHandler EXCEPT !.pc = "register_job", !.job_id = j,
                                            !.cmd = InstallCmd(NameA, V1)]
    /\ JOBS_LOCK' = "http"
    /\ UNCHANGED <<worker, proc, job_lock, poller, resp>>
    /\ othersUnchanged

\* start_job_* up to the body of register_job: Job(kind, args) (uuid4: an
\* id no job has) and, with JOBS_LOCK: JOBS[job.id] = job; cmd is the
\* command the function goes on to build
RegisterJob(cmd) ==
    /\ handler.pc = "idle"
    /\ JOBS_LOCK = "free"
    /\ \E j \in JobIds :
          /\ ~JOBS[j].registered
          /\ JOBS' = [JOBS EXCEPT ![j] = NewJob]
          /\ handler' = [IdleHandler EXCEPT !.pc = "register_job", !.job_id = j,
                                            !.cmd = cmd]
    /\ JOBS_LOCK' = "http"
    /\ UNCHANGED <<worker, proc, job_lock, poller, resp>>
    /\ othersUnchanged

\* POST /api/job/install_exact, for the package a at the version 1
register_job == RegisterJob(InstallCmd(NameA, V1))

\* the rest of start_job_*: the end of register_job's with block, the start
\* of the worker thread, and the response with the id
start_job ==
    /\ handler.pc = "register_job"
    /\ JOBS_LOCK' = "free"
    /\ worker' = [worker EXCEPT ![handler.job_id] = "popen"]
    /\ proc' = [proc EXCEPT ![handler.job_id].threads = @ + 1,
                            ![handler.job_id].cmd = handler.cmd]
    /\ resp' = [status |-> 200, job_id |-> handler.job_id]
    /\ handler' = IdleHandler
    /\ UNCHANGED <<JOBS, job_lock, poller>>
    /\ othersUnchanged

\* Popen with a slip: the command is started a second time
PopenRetry(j) ==
    /\ worker[j] = "popen"
    /\ worker' = [worker EXCEPT ![j] = IF proc[j].launched = 0 THEN "popen" ELSE "stdout"]
    /\ proc' = [proc EXCEPT ![j].launched = @ + 1]
    /\ UNCHANGED <<JOBS, JOBS_LOCK, job_lock, handler, poller, resp>>
    /\ othersUnchanged

\* _run_and_stream: subprocess.Popen(cmd) starts the process ...
Popen(j) ==
    /\ worker[j] = "popen"
    /\ worker' = [worker EXCEPT ![j] = "stdout"]
    /\ proc' = [proc EXCEPT ![j].launched = @ + 1]
    /\ UNCHANGED <<JOBS, JOBS_LOCK, job_lock, handler, poller, resp>>
    /\ othersUnchanged

\* ... or raises (no such executable), which ends the thread
PopenRaises(j) ==
    /\ worker[j] = "popen"
    /\ worker' = [worker EXCEPT ![j] = "raised"]
    /\ UNCHANGED <<JOBS, JOBS_LOCK, proc, job_lock, handler, poller, resp>>
    /\ othersUnchanged

\* Append_text with a slip: the line is put before the text
AppendFront(job, s) == [job EXCEPT !.text = s \o @]

\* Job.append(s): with self.lock: self.text += s
Append_text(job, s) == [job EXCEPT !.text = @ \o s]

\* ReadLine with a slip: lines are appended after the thread has set done
ReadLineLate(j, line) ==
    /\ worker[j] \in {"stdout", "exit"}
    /\ Len(proc[j].printed) < MaxOutLines
    /\ job_lock[j] = "free"
    /\ JOBS' = [JOBS EXCEPT ![j] = Append_text(@, line)]
    /\ proc' = [proc EXCEPT ![j].printed = Append(@, line)]
    /\ UNCHANGED <<JOBS_LOCK, worker, job_lock, handler, poller, resp>>
    /\ othersUnchanged

\* for line in p.stdout: job.append(line). append takes job.lock, adds the
\* line and releases the lock; it waits while a poll holds the lock.
ReadLine(j, line) ==
    /\ worker[j] = "stdout"
    /\ Len(proc[j].printed) < MaxOutLines
    /\ job_lock[j] = "free"
    /\ JOBS' = [JOBS EXCEPT ![j] = Append_text(@, line)]
    /\ proc' = [proc EXCEPT ![j].printed = Append(@, line)]
    /\ UNCHANGED <<JOBS_LOCK, worker, job_lock, handler, poller, resp>>
    /\ othersUnchanged

\* the end of p.stdout, and p.wait(): the process has terminated
Wait(j, rc) ==
    /\ worker[j] = "stdout"
    /\ worker' = [worker EXCEPT ![j] = "returncode"]
    /\ proc' = [proc EXCEPT ![j].status = {rc}]
    /\ UNCHANGED <<JOBS, JOBS_LOCK, job_lock, handler, poller, resp>>
    /\ othersUnchanged

\* SetReturncode with a slip: the exit status is taken to be 0
SetReturncodeZero(j) ==
    /\ worker[j] = "returncode"
    /\ JOBS' = [JOBS EXCEPT ![j].returncode = {0}]
    /\ worker' = [worker EXCEPT ![j] = "done"]
    /\ UNCHANGED <<JOBS_LOCK, proc, job_lock, handler, poller, resp>>
    /\ othersUnchanged

\* job.returncode = p.returncode (job.lock is not taken)
SetReturncode(j) ==
    /\ worker[j] = "returncode"
    /\ JOBS' = [JOBS EXCEPT ![j].returncode = proc[j].status]
    /\ worker' = [worker EXCEPT ![j] = "done"]
    /\ UNCHANGED <<JOBS_LOCK, proc, job_lock, handler, poller, resp>>
    /\ othersUnchanged

\* SetDone with a slip: done is set while the process still runs
SetDoneEarly(j) ==
    /\ worker[j] \in {"stdout", "done"}
    /\ JOBS' = [JOBS EXCEPT ![j].done = TRUE]
    /\ worker' = [worker EXCEPT ![j] = "exit"]
    /\ UNCHANGED <<JOBS_LOCK, proc, job_lock, handler, poller, resp>>
    /\ othersUnchanged

\* job.done = True, the last statement of the thread (job.lock is not taken)
SetDone(j) ==
    /\ worker[j] = "done"
    /\ JOBS' = [JOBS EXCEPT ![j].done = TRUE]
    /\ worker' = [worker EXCEPT ![j] = "exit"]
    /\ UNCHANGED <<JOBS_LOCK, proc, job_lock, handler, poller, resp>>
    /\ othersUnchanged

\* PollText with a slip: the slice starts one character late
PollTextLate(buf, pos) == IF pos < Len(buf) THEN From(buf, pos + 1) ELSE <<>>

\* job.text[pos:] if pos < len(job.text) else ""
PollText(buf, pos) == IF pos < Len(buf) THEN From(buf, pos) ELSE <<>>

\* startPolling(job_id), called with the job id a submit has just returned:
\* currentJob = job_id, jobPos = 0, and the timer. No request of the poller
\* is in flight. out is the text received for this job.
startPolling(j) ==
    /\ handler.pc = "idle"
    /\ resp = [status |-> 200, job_id |-> j]
    /\ poller.job_id # j
    /\ poller' = [job_id |-> j, pollTimer |-> TRUE, jobPos |-> 0, out |-> <<>>]
    /\ UNCHANGED <<JOBS, JOBS_LOCK, worker, proc, job_lock, handler, resp>>
    /\ othersUnchanged

\* GET /api/job/poll up to the body of get_job: the query is parsed and
\* JOBS_LOCK is taken
PollRequest(client, j, pos) ==
    /\ handler.pc = "idle"
    /\ JOBS_LOCK = "free"
    /\ JOBS_LOCK' = "http"
    /\ handler' = [IdleHandler EXCEPT !.pc = "get_job", !.client = client,
                                      !.job_id = j, !.pos = pos]
    /\ UNCHANGED <<JOBS, worker, proc, job_lock, poller, resp>>
    /\ othersUnchanged

\* a tick of the poller's timer and its request: the poller asks from its
\* jobPos and has one request in flight at a time. (Its job id is one a
\* submit returned: get_job finds the job.)
PollBegin ==
    /\ poller.pollTimer
    /\ PollRequest("ui", poller.job_id, poller.jobPos)

\* the cursors a client other than the poller may send
Cursors == 0..MaxCursor

\* a request of another client, for the job and from the cursor it chooses
PollAny(j, pos) == PollRequest("any", j, pos)

JobNotFound == [status |-> 404, error |-> "job not found"]

\* get_job returns None (JOBS_LOCK is free again): if not job: 404
PollNotFound ==
    /\ handler.pc = "get_job"
    /\ ~JOBS[handler.job_id].registered
    /\ JOBS_LOCK' = "free"
    /\ resp' = JobNotFound
    /\ handler' = IdleHandler
    /\ UNCHANGED <<JOBS, worker, proc, job_lock, poller>>
    /\ othersUnchanged

\* PollLock with a slip: the handler waits for the job to be done
PollLockWhenDone ==
    /\ handler.pc = "get_job"
    /\ JOBS[handler.job_id].registered
    /\ LET j == handler.job_id
       IN /\ JOBS[j].done
          /\ job_lock[j] = "free"
          /\ JOBS_LOCK' = "free"
          /\ job_lock' = [job_lock EXCEPT ![j] = "http"]
          /\ handler' = [handler EXCEPT !.pc = "done",
                                        !.text = PollText(JOBS[j].text, handler.pos),
                                        !.newpos = Len(JOBS[j].text)]
    /\ UNCHANGED <<JOBS, worker, proc, poller, resp>>
    /\ othersUnchanged

\* PollLock with a slip: job.lock is not taken
PollNoLock ==
    /\ handler.pc = "get_job"
    /\ JOBS[handler.job_id].registered
    /\ LET j == handler.job_id
       IN /\ JOBS_LOCK' = "free"
          /\ handler' = [handler EXCEPT !.pc = "done",
                                        !.text = PollText(JOBS[j].text, handler.pos),
                                        !.newpos = Len(JOBS[j].text)]
    /\ UNCHANGED <<JOBS, worker, proc, job_lock, poller, resp>>
    /\ othersUnchanged

\* get_job returns the job and JOBS_LOCK is free again; then with job.lock:
\* text and newpos. The handler waits while an append holds job.lock.
PollLock ==
    /\ handler.pc = "get_job"
    /\ JOBS[handler.job_id].registered
    /\ LET j == handler.job_id
       IN /\ job_lock[j] = "free"
          /\ JOBS_LOCK' = "free"
          /\ job_lock' = [job_lock EXCEPT ![j] = "http"]
          /\ handler' = [handler EXCEPT !.pc = "done",
                                        !.text = PollText(JOBS[j].text, handler.pos),
                                        !.newpos = Len(JOBS[j].text)]
    /\ UNCHANGED <<JOBS, worker, proc, poller, resp>>
    /\ othersUnchanged

\* done = job.done
PollReadDone ==
    /\ handler.pc = "done"
    /\ handler' = [handler EXCEPT !.pc = "rc", !.done = JOBS[handler.job_id].done]
    /\ UNCHANGED <<JOBS, JOBS_LOCK, worker, proc, job_lock, poller, resp>>
    /\ othersUnchanged

\* the poller's callback on a response: the text is appended to #out,
\* jobPos = data.pos, and a done response clears the timer
OnResponse(p, data) ==
    [job_id |-> p.job_id,
     pollTimer |-> ~data.done,
     jobPos |-> data.pos,
     out |-> p.out \o data.text]

\* rc = job.returncode, and the body of the response
PollData ==
    [text |-> handler.text, pos |-> handler.newpos, done |-> handler.done,
     returncode |-> JOBS[handler.job_id].returncode]

\* PollRespond with a slip: the text sent is taken out of the buffer
PollRespondTake ==
    /\ handler.pc = "rc"
    /\ JOBS' = [JOBS EXCEPT ![handler.job_id].text = <<>>]
    /\ job_lock' = [job_lock EXCEPT ![handler.job_id] = "free"]
    /\ poller' = IF handler.client = "ui" THEN OnResponse(poller, PollData) ELSE poller
    /\ handler' = IdleHandler
    /\ UNCHANGED <<JOBS_LOCK, worker, proc, resp>>
    /\ othersUnchanged

\* rc = job.returncode, the end of the with block, and the json_response,
\* which the client takes in
PollRespond ==
    /\ handler.pc = "rc"
    /\ job_lock' = [job_lock EXCEPT ![handler.job_id] = "free"]
    /\ poller' = IF handler.client = "ui" THEN OnResponse(poller, PollData) ELSE poller
    /\ handler' = IdleHandler
    /\ UNCHANGED <<JOBS, JOBS_LOCK, worker, proc, resp>>
    /\ othersUnchanged

InitJob ==
    /\ IdleDiff
    /\ IdleStore

\* the steps of the worker threads
WorkerStep(j) ==
    \/ Popen(j)
    \/ PopenRaises(j)
    \/ \E line \in OutLines : ReadLine(j, line)
    \/ \E rc \in ExitCodes : Wait(j, rc)
    \/ SetReturncode(j)
    \/ SetDone(j)

NextJob ==
    \/ register_job
    \/ start_job
    \/ \E j \in JobIds : WorkerStep(j)
    \/ \E j \in JobIds : startPolling(j)
    \/ PollBegin
    \/ PollLock
    \/ PollReadDone
    \/ PollRespond

SpecJob == InitJob /\ [][NextJob]_vars

NextPoll ==
    \/ register_job
    \/ start_job
    \/ \E j \in JobIds : WorkerStep(j)
    \/ \E j \in JobIds, pos \in Cursors : PollAny(j, pos)
    \/ PollNotFound
    \/ PollLock
    \/ PollReadDone
    \/ PollRespond

SpecPoll == InitJob /\ [][NextPoll]_vars

\* the threads of the workers are scheduled, and the processes end
WorkerFair ==
    \A j \in JobIds :
        /\ WF_vars(\E rc \in ExitCodes : Wait(j, rc))
        /\ WF_vars(SetReturncode(j))
        /\ WF_vars(SetDone(j))

SpecWorkerFair == InitJob /\ [][NextPoll]_vars /\ WorkerFair

\* the thread of the server is scheduled; nothing is asked of the workers
\* or of the processes
ServerFair ==
    /\ WF_vars(start_job)
    /\ WF_vars(PollNotFound)
    /\ WF_vars(PollLock)
    /\ WF_vars(PollReadDone)
    /\ WF_vars(PollRespond)

SpecServerFair == InitJob /\ [][NextPoll]_vars /\ ServerFair

-----------------------------------------------------------------------------
(* SpecRestore: POST /api/job/restore and GET /api/job/poll over a
   snapshot directory in the states a save or a delete leaves behind *)

SnapshotNotFound == [status |-> 404, error |-> "snapshot not found"]

\* job_restore with a slip: the job is started before the snapshot is looked at
job_restore_first(id) ==
    /\ handler.pc = "idle"
    /\ IF get_snapshot(id).raised
       THEN resp' = NoReply /\ UNCHANGED jobVars /\ othersUnchanged
       ELSE RegisterJob(RestoreCmd(get_snapshot(id).req_path))

\* POST /api/job/restore, up to the body of register_job: get_snapshot(sid)
\* raises, or there is no meta and the answer is 404, or
\* start_job_restore_requirements(req_path) begins as every start_job_* does
job_restore(id) ==
    /\ handler.pc = "idle"
    /\ IF get_snapshot(id).raised
       THEN resp' = NoReply /\ UNCHANGED jobVars /\ othersUnchanged
       ELSE IF ~get_snapshot(id).found
       THEN resp' = SnapshotNotFound /\ UNCHANGED jobVars /\ othersUnchanged
       ELSE RegisterJob(RestoreCmd(get_snapshot(id).req_path))

\* what a save of payload t, a failed one or a delete leaves under an id
SnapshotStates(id, t) ==
    { NoSnapshot,
      [json |-> <<SavedMeta(id, t)>>, txt |-> t],
      [json |-> NoJson, txt |-> t],
      [json |-> <<SavedMeta(id, t)>>, txt |-> NoFile],
      [json |-> <<CorruptMeta>>, txt |-> t] }

\* what pip freeze prints when a restore is asked for: the package a alone
RestoreEnv == TextOf(<<Pin(NameA, V1)>>)

\* no job yet; the snapshot of the second before is in any of these states,
\* and none was saved in this second
InitRestore ==
    /\ IdleDiff
    /\ IdleJobs
    /\ resp = NoResp
    /\ env = RestoreEnv
    /\ clock = Sec2
    /\ \E n \in SnapNames, t \in StoreTexts :
          \E st \in SnapshotStates(Base(n, Sec1), t) :
             snap_files = [id \in SnapIds |-> IF id = Base(n, Sec1) THEN st ELSE NoSnapshot]

NextRestore ==
    \/ \E id \in SnapIds : job_restore(id)
    \/ start_job
    \/ \E j \in JobIds : WorkerStep(j)
    \/ \E j \in JobIds : PollAny(j, 0)
    \/ PollNotFound
    \/ PollLock
    \/ PollReadDone
    \/ PollRespond

SpecRestore == InitRestore /\ [][NextRestore]_vars

-----------------------------------------------------------------------------
(* Properties of diff_envs, under SpecDiff *)

Range(xs) == {xs[i] : i \in 1..Len(xs)}

\* the two package sets diff_envs was applied to
SourcePkgs == parse_requirements_text(cur_text).pkgs
TargetPkgs == parse_requirements_text(target_text).pkgs

\* the normalized (lowercased) names of a list of the plan
NormKeys(xs) == {Lower(xs[i].name) : i \in 1..Len(xs)}

\* the entry of package set d under key k
Entry(d, k) == CHOOSE e \in Range(d) : e.key = k

\* C1: the normalized keys of installs, uninstalls and unchanged are pairwise
\* disjoint, no list names a key twice, and their union is keys(S) \cup keys(T)
C1_DiffPartition ==
    pc = "return" =>
        LET I == NormKeys(plan.installs)
            U == NormKeys(plan.uninstalls)
            N == NormKeys(plan.unchanged)
        IN /\ I \cap U = {} /\ I \cap N = {} /\ U \cap N = {}
           /\ Cardinality(I) = Len(plan.installs)
           /\ Cardinality(U) = Len(plan.uninstalls)
           /\ Cardinality(N) = Len(plan.unchanged)
           /\ I \cup U \cup N = DictKeys(SourcePkgs) \cup DictKeys(TargetPkgs)

\* a plan with all three lists non-empty
C1_Witness ==
    /\ pc = "return"
    /\ plan.installs # <<>> /\ plan.uninstalls # <<>> /\ plan.unchanged # <<>>

\* C2: a key of T only is an install from None to T's version, a key of both
\* with differing versions an install from S's version to T's, a key of both
\* with equal versions is unchanged, a key of S only is an uninstall from S's
\* version; and the lists hold nothing else
C2_DiffClassification ==
    pc = "return" =>
        LET S == SourcePkgs
            T == TargetPkgs
            both == DictKeys(S) \cap DictKeys(T)
        IN /\ Range(plan.installs) =
                {[name |-> Entry(T, k).name, from |-> None, to |-> Entry(T, k).version]
                    : k \in DictKeys(T) \ DictKeys(S)}
                \cup
                {[name |-> Entry(T, k).name, from |-> Entry(S, k).version,
                  to |-> Entry(T, k).version]
                    : k \in {b \in both : Entry(S, b).version # Entry(T, b).version}}
           /\ Range(plan.unchanged) =
                {[name |-> Entry(T, k).name, version |-> Entry(T, k).version]
                    : k \in {b \in both : Entry(S, b).version = Entry(T, b).version}}
           /\ Range(plan.uninstalls) =
                {[name |-> Entry(S, k).name, from |-> Entry(S, k).version]
                    : k \in DictKeys(S) \ DictKeys(T)}

\* a plan with an install of a new key and an upgrade of a present one
C2_Witness ==
    /\ pc = "return"
    /\ \E i, j \in 1..Len(plan.installs) :
          plan.installs[i].from = None /\ plan.installs[j].from # None

\* C3: diff_envs(S, S) has no installs, no uninstalls, and every key of S,
\* once, in unchanged
C3_DiffIdempotence ==
    (pc = "return" /\ SourcePkgs = TargetPkgs) =>
        /\ plan.installs = <<>>
        /\ plan.uninstalls = <<>>
        /\ NormKeys(plan.unchanged) = DictKeys(SourcePkgs)
        /\ Len(plan.unchanged) = Len(SourcePkgs)

\* diff_envs applied to twice the same package set of two entries
C3_Witness ==
    /\ pc = "return"
    /\ SourcePkgs = TargetPkgs
    /\ Len(SourcePkgs) = 2

Names(xs) == {xs[i].name : i \in 1..Len(xs)}
AddedNames(xs) == {xs[i].name : i \in {j \in 1..Len(xs) : xs[j].from = None}}

\* C4: the names uninstalled by diff_envs(S, T) are the names diff_envs(T, S)
\* installs from None, and the names uninstalled by diff_envs(T, S) are the
\* names diff_envs(S, T) installs from None
C4_DiffSymmetry ==
    pc = "return" =>
        LET back == diff_envs(TargetPkgs, SourcePkgs)
        IN /\ Names(plan.uninstalls) = AddedNames(back.installs)
           /\ Names(back.uninstalls) = AddedNames(plan.installs)

\* a plan with an uninstall, an added key, and a key of both sides
C4_Witness ==
    /\ pc = "return"
    /\ plan.uninstalls # <<>>
    /\ AddedNames(plan.installs) # {}
    /\ DictKeys(SourcePkgs) \cap DictKeys(TargetPkgs) # {}

\* C5: an entry of S and an entry of T whose names are equal up to letter case
\* are unchanged when their version strings are equal and an install, from
\* the one to the other version, when the version strings differ at all
C5_CaseAndVersion ==
    pc = "return" =>
        \A s \in Range(SourcePkgs), t \in Range(TargetPkgs) :
            Lower(s.name) = Lower(t.name) =>
                IF s.version = t.version
                THEN /\ [name |-> t.name, version |-> t.version] \in Range(plan.unchanged)
                     /\ t.name \notin Names(plan.installs)
                ELSE /\ [name |-> t.name, from |-> s.version, to |-> t.version]
                            \in Range(plan.installs)
                     /\ t.name \notin Names(plan.unchanged)

\* names that differ in case only with one version, and one name with the
\* versions 1.0 and 1.00
C5_Witness ==
    /\ pc = "return"
    /\ \E s \in Range(SourcePkgs), t \in Range(TargetPkgs) :
          s.name # t.name /\ Lower(s.name) = Lower(t.name) /\ s.version = t.version
    /\ \E s \in Range(SourcePkgs), t \in Range(TargetPkgs) :
          Lower(s.name) = Lower(t.name) /\ s.version = V10 /\ t.version = V100

-----------------------------------------------------------------------------
(* Properties of parse_requirements_text, under SpecParse *)

\* the text was written from name==version lines only
PinOnlyText == text # None /\ \A i \in 1..Len(lines) : lines[i] \in PinOnlyLines

\* the (name, version) pairs of the lines of a pin-only text
InputPairs ==
    {nv \in PinNames \X PinVersions : \E i \in 1..Len(lines) : lines[i] = Pin(nv[1], nv[2])}

\* the (name, version) pair of the last line of each lowercased name
LastPairs ==
    {nv \in InputPairs :
        \E i \in 1..Len(lines) :
            /\ lines[i] = Pin(nv[1], nv[2])
            /\ \A j \in (i + 1)..Len(lines), mw \in InputPairs :
                  lines[j] = Pin(mw[1], mw[2]) => Lower(mw[1]) # Lower(nv[1])}

\* every entry of the parse result rendered as display_name==version
RenderedLines == {Pin(parsed.pkgs[i].name, parsed.pkgs[i].version) : i \in 1..Len(parsed.pkgs)}

\* C7, as stated: for a text of name==version lines only, the rendered entries
\* are the (name, version) pairs of the input lines
C7_RoundTripAsStated ==
    (pc = "return" /\ PinOnlyText) =>
        RenderedLines = {Pin(nv[1], nv[2]) : nv \in InputPairs}

\* C7, amended: for a text of name==version lines only, the rendered entries
\* are the pairs of the last line of each lowercased name, and nothing goes to
\* other_lines; these are all the pairs of the input lines exactly when no two
\* lines with different pairs have the same lowercased name
C7_RoundTripLastWins ==
    (pc = "return" /\ PinOnlyText) =>
        /\ RenderedLines = {Pin(nv[1], nv[2]) : nv \in LastPairs}
        /\ parsed.others = <<>>
        /\ (RenderedLines = {Pin(nv[1], nv[2]) : nv \in InputPairs})
              <=> (\A nv, mw \in InputPairs : Lower(nv[1]) = Lower(mw[1]) => nv = mw)

\* a parsed text of three pin lines, two of them of one lowercased name
C7_Witness ==
    /\ pc = "return" /\ PinOnlyText
    /\ Cardinality(InputPairs) = 3
    /\ Cardinality(LastPairs) = 2

\* C8: every entry's key is the lowercase form of its display name, the keys
\* are unique, and every entry's version is a non-empty string
C8_EntryInvariant ==
    pc = "return" =>
        /\ \A i \in 1..Len(parsed.pkgs) :
              /\ parsed.pkgs[i].key = Lower(parsed.pkgs[i].name)
              /\ parsed.pkgs[i].version # <<>>
        /\ \A i, j \in 1..Len(parsed.pkgs) :
              parsed.pkgs[i].key = parsed.pkgs[j].key => i = j

\* what each line of the model's line set is, by the claim's cases
SkippedLines == {BlankLine, SpacesLine, CommentLine}
ShuntedLines == {EditableLine, UrlLine, BareNameLine}
EntryLines == ParseLineSet \ (SkippedLines \cup ShuntedLines)

\* the name and version an entry line pins
EntryOf(line) ==
    IF line = PaddedPinLine THEN <<NameB, V2>>
    ELSE IF line = NoVersionLine THEN <<NameA, <<>> >>
    ELSE IF line = DashELine THEN <<(<<"-", "e">> \o NameA), V1>>
    ELSE CHOOSE nv \in PinNames \X PinVersions : line = Pin(nv[1], nv[2])

IsShunted(line) == line \in ShuntedLines

\* C9: for every text, also the empty and the absent one, what
\* parse_requirements_text returns is: blank and "#" lines contribute nothing;
\* other_lines is, in input order, the editable/URL-qualified lines (also
\* those with "==") and the lines without "=="; every other line with "==" is
\* an entry, the last line of a lowercased name giving its name and version.
\* (Parse has a value for every text of InitParse: TLC evaluates it in every
\* initial state of SpecParse.)
C9_ParseTotal ==
    pc = "return" =>
        /\ (text = None => parsed = NoParse)
        /\ parsed.others = SelectSeq(lines, IsShunted)
        /\ DictKeys(parsed.pkgs) =
              {Lower(EntryOf(lines[i])[1]) : i \in {j \in 1..Len(lines) : lines[j] \in EntryLines}}
        /\ \A e \in Range(parsed.pkgs) :
              \E i \in 1..Len(lines) :
                  /\ lines[i] \in EntryLines
                  /\ <<e.name, e.version>> = EntryOf(lines[i])
                  /\ \A j \in (i + 1)..Len(lines) :
                        lines[j] \in EntryLines => Lower(EntryOf(lines[j])[1]) # e.key

\* a text with a comment, an editable line with "==" and a pin line
C9_Witness ==
    /\ pc = "return"
    /\ \E i, j, k \in 1..Len(lines) :
          lines[i] = CommentLine /\ lines[j] = EditableLine /\ lines[k] \in PinOnlyLines
    /\ Len(parsed.others) = 1 /\ Len(parsed.pkgs) = 1

-----------------------------------------------------------------------------
(* Properties of the command plan, under SpecPlan *)

\* the names of xs in increasing order, each once
InOrder(ns, xs) ==
    /\ Len(ns) = Len(xs)
    /\ Range(ns) = Names(xs)
    /\ \A i, j \in 1..Len(ns) : i < j => StrLess(ns[i], ns[j])

\* C6: in the commands of a preview or a diff, when something is uninstalled
\* the first command is the one uninstall command, naming all uninstalled
\* names in increasing order, and after it comes one install command per
\* install, pinning name==to, in the order of installs; when nothing is
\* uninstalled there are only the install commands
C6_CommandPlan ==
    resp.status = 200 =>
        LET cmds == resp.commands
            un == resp.uninstalls
            ins == resp.installs
            k == IF un = <<>> THEN 0 ELSE 1
        IN /\ Len(cmds) = k + Len(ins)
           /\ un # <<>> =>
                \E ns \in [1..Len(un) -> Names(un)] :
                    /\ InOrder(ns, un)
                    /\ cmds[1] = <<UNINSTALL_CMD>> \o Join(<<" ">>, ns)
           /\ \A i \in 1..Len(ins) :
                cmds[k + i] = <<INSTALL_CMD>> \o ins[i].name \o EQEQ \o ins[i].to
           /\ \A i \in 1..Len(cmds) : cmds[i][1] = UNINSTALL_CMD => (i = 1 /\ un # <<>>)

\* a diff of two snapshots with two uninstalls, listed out of order, and an install
C6_Witness ==
    /\ resp.status = 200 /\ resp.op = "diff"
    /\ Len(resp.uninstalls) = 2
    /\ StrLess(resp.uninstalls[2].name, resp.uninstalls[1].name)
    /\ Len(resp.installs) = 1

-----------------------------------------------------------------------------
(* Properties of the job runner, under SpecJob *)

\* C10: for the job the poller polls, from cursor 0 and then from the cursor
\* of the previous response, under every interleaving with the workers: the
\* deltas received so far, concatenated, are the job's buffer up to the
\* cursor, each character once and in order; each poll asks from that cursor
\* and its delta completes them to the whole buffer as of that poll, which
\* the new cursor is the length of
C10_PollDeltas ==
    poller.job_id # "" =>
        LET buf == JOBS[poller.job_id].text
        IN /\ poller.jobPos <= Len(buf)
           /\ poller.out = SubSeq(buf, 1, poller.jobPos)
           /\ handler.pc \in {"done", "rc"} =>
                /\ handler.job_id = poller.job_id
                /\ handler.pos = poller.jobPos
                /\ poller.out \o handler.text = buf
                /\ handler.newpos = Len(buf)
                /\ handler.newpos >= handler.pos

\* a poll from a cursor past 0 that returns more text, of a job that printed
\* its lines between polls
C10_Witness ==
    /\ handler.pc = "rc"
    /\ handler.pos > 0
    /\ handler.text # <<>>
    /\ poller.out # <<>>

-----------------------------------------------------------------------------
(* Properties of the poll handler and the workers, under SpecPoll *)

\* C11: a poll of any job from any cursor n with 0 <= n <= len(buffer),
\* while the job's worker may still be appending: the delta of the response
\* is the buffer after offset n, the new cursor is the length of that same
\* buffer, and n + len(delta) = new cursor
C11_PollSnapshot ==
    handler.pc \in {"done", "rc"} =>
        LET buf == JOBS[handler.job_id].text
            n == handler.pos
        IN n <= Len(buf) =>
              /\ PollData.text = SubSeq(buf, n + 1, Len(buf))
              /\ PollData.pos = Len(buf)
              /\ n + Len(PollData.text) = PollData.pos

\* a poll from inside the first line, of a job whose worker has a line more
\* to append
C11_Witness ==
    /\ handler.pc = "rc"
    /\ handler.client = "any"
    /\ handler.pos = 1
    /\ handler.text # <<>>
    /\ worker[handler.job_id] = "stdout"
    /\ Len(proc[handler.job_id].printed) < MaxOutLines

\* C12: done goes from False to True only, and only when the process has
\* terminated; once True it stays True; the exit code, once recorded, never
\* changes; and a job is either not done or done: a worker that ran to its
\* end leaves the job done
C12_DoneOnce ==
    [][\A j \in JobIds :
          /\ JOBS[j].done => JOBS'[j].done
          /\ JOBS[j].done \/ JOBS[j].returncode # {}
                => JOBS'[j].returncode = JOBS[j].returncode
          /\ ~JOBS[j].done /\ JOBS'[j].done => proc[j].status # {}
          /\ JOBS'[j].done \in BOOLEAN
          /\ worker'[j] = "exit" => JOBS'[j].done]_vars

\* a done job with exit code 1 that is polled once more
C12_Witness ==
    /\ handler.pc = "done"
    /\ JOBS[handler.job_id].done
    /\ JOBS[handler.job_id].returncode = {1}

\* C13: no poll response has done = false together with an exit code
C13_NoCodeBeforeDone ==
    handler.pc = "rc" => (~PollData.done => PollData.returncode = {})

\* C14: a poll response with done = true has an exit code, the exit status
\* of the terminated process, whatever its text
C14_DoneCarriesStatus ==
    handler.pc = "rc" /\ PollData.done =>
        /\ PollData.returncode # {}
        /\ PollData.returncode = proc[handler.job_id].status

\* a done response for a process that printed nothing and ended with 1
C14_Witness ==
    /\ handler.pc = "rc"
    /\ PollData.done
    /\ PollData.returncode = {1}
    /\ JOBS[handler.job_id].text = <<>>

\* C15: a job whose command could not be launched is done, with an error in
\* its output or its exit code
C15_LaunchFailureSurfaces ==
    \A j \in JobIds :
        worker[j] = "raised" =>
            JOBS[j].done /\ (JOBS[j].text # <<>> \/ JOBS[j].returncode # {})

\* the states of a worker whose process was started
Launched == {"stdout", "returncode", "done", "exit"}

C17_NeverWaits ==
    /\ [](JOBS_LOCK = "free" \/ \A j \in JobIds : job_lock[j] = "free")
    /\ (handler.pc # "idle") ~> (handler.pc = "idle")

\* a poll about to be answered for a job whose command is not launched yet,
\* while the other job's id is being returned
C17_Witness ==
    /\ handler.pc = "rc"
    /\ worker[handler.job_id] = "popen"
    /\ \E k \in JobIds : worker[k] = "stdout" /\ JOBS[k].text # <<>>

\* C18: the fields of a job are read and written under its lock: while a
\* poll holds the lock of a job, no field of that job changes
C18_LockedAccess ==
    [][\A j \in JobIds : job_lock[j] = "http" => JOBS'[j] = JOBS[j]]_vars

-----------------------------------------------------------------------------
(* Properties of the snapshot directory, under SpecStore *)

\* C19: get_snapshot(id) finds nothing when the metadata file or the payload
\* file of id is missing, and returns the metadata and the payload path of id
\* when both exist
C19_GetSnapshot ==
    \A id \in SnapIds :
        LET s == snap_files[id]
            got == get_snapshot(id)
        IN /\ ~Exists(s, "json") \/ ~Exists(s, "txt") =>
                ~got.found /\ got.meta = NoJson
           /\ Exists(s, "json") /\ Exists(s, "txt") /\ s.json[1].readable =>
                got.found /\ got.meta = s.json /\ got.meta[1].id = id /\ got.req_path = id
           /\ got.found => Exists(s, "json") /\ Exists(s, "txt")

\* a snapshot with its payload and without its metadata, just asked for
C19_Witness ==
    /\ resp = NotFound
    /\ \E id \in SnapIds : snap_files[id].json = NoJson /\ snap_files[id].txt # NoFile
    /\ \E id \in SnapIds : get_snapshot(id).found

\* C20: delete_snapshot(id) removes each file of id that exists unless its
\* removal raises, the payload also when the removal of the metadata has
\* raised; it returns False when a removal raised and True otherwise; after
\* True neither file exists and get_snapshot(id) finds nothing
C20_DeleteSnapshot ==
    [][\A id \in SnapIds, raises \in SUBSET SnapFiles :
          "ok" \in DOMAIN resp' /\ DeleteWith(id, raises) =>
              LET before == snap_files[id]
                  after == snap_files'[id]
                  raised == {f \in raises : Exists(before, f)}
              IN /\ \A f \in SnapFiles : Exists(after, f) <=> f \in raised
                 /\ resp'.ok = (raised = {})
                 /\ resp'.ok => after = NoSnapshot /\ ~get_snapshot(id)'.found]_vars

\* a snapshot left with its metadata only: the removal of the metadata
\* raised, the payload was removed all the same, and the answer was False
C20_Witness ==
    /\ resp = [status |-> 200, ok |-> FALSE]
    /\ \E id \in SnapIds : snap_files[id].json # NoJson /\ snap_files[id].txt = NoFile

-----------------------------------------------------------------------------
(* Properties of the output buffer *)

\* C28: once done is True the buffer of the job does not change; a poll
\* response with done = true has as its new cursor the length of the whole
\* output, the worker having ended; and when the UI poller has stopped at
\* its first done response, the text it received is the whole buffer
C28_DoneIsFinal ==
    /\ [][\A j \in JobIds : JOBS[j].done => JOBS'[j].text = JOBS[j].text]_vars
    /\ [](handler.pc = "rc" /\ PollData.done =>
             /\ worker[handler.job_id] = "exit"
             /\ PollData.pos = Len(Join(<<>>, proc[handler.job_id].printed))
             /\ PollData.pos = Len(JOBS[handler.job_id].text))
    /\ [](poller.job_id # "" /\ ~poller.pollTimer =>
             /\ JOBS[poller.job_id].done
             /\ poller.out = JOBS[poller.job_id].text)

\* the poller has stopped with the two lines of its job received
C28_Witness ==
    /\ poller.job_id # ""
    /\ ~poller.pollTimer
    /\ Len(proc[poller.job_id].printed) >= 2
    /\ poller.out # <<>>
    /\ handler.pc = "idle"

\* C29: each step leaves the buffer of a job as it is or extends it at its
\* end, so the buffer of a state is a prefix of the buffer of every later
\* state; and the buffer is the lines the process has printed so far, in the
\* order it printed them
C29_AppendOnly ==
    /\ [][\A j \in JobIds :
             /\ Len(JOBS[j].text) <= Len(JOBS'[j].text)
             /\ SubSeq(JOBS'[j].text, 1, Len(JOBS[j].text)) = JOBS[j].text]_vars
    /\ [](\A j \in JobIds : JOBS[j].text = Join(<<>>, proc[j].printed))

\* a buffer of two different lines
C29_Witness ==
    \E j \in JobIds :
        /\ Len(proc[j].printed) = 2
        /\ proc[j].printed[1] # proc[j].printed[2]
        /\ JOBS[j].text # <<>>

\* C30: one worker thread is started for each job, and a step that changes
\* the buffer, the done flag or the exit code of a registered job is a step
\* of that job's worker: polls, submits and the workers of other jobs leave
\* them as they are
C30_OnlyOwnWorker ==
    /\ [](\A j \in JobIds :
             /\ proc[j].threads <= 1
             /\ worker[j] # "none" <=> proc[j].threads = 1)
    /\ [][\A j \in JobIds :
             JOBS[j].registered /\ JOBS'[j] # JOBS[j] => WorkerStep(j)]_vars

\* a poll about to be answered while both jobs have output, not the same
C30_Witness ==
    /\ handler.pc = "rc"
    /\ \A j \in JobIds : JOBS[j].text # <<>> /\ proc[j].threads = 1
    /\ \E j, k \in JobIds : JOBS[j].text # JOBS[k].text

-----------------------------------------------------------------------------
(* Properties of saving and listing snapshots, under SpecStore *)

\* C21: for a snapshot whose metadata file exists and whose payload file does
\* not, get_snapshot finds nothing (and raises nothing), and a listing does
\* not hold its metadata
C21_CorruptNotListed ==
    \A id \in SnapIds :
        snap_files[id].json # NoJson /\ snap_files[id].txt = NoFile =>
            /\ ~get_snapshot(id).found
            /\ ~get_snapshot(id).raised
            /\ "items" \in DOMAIN resp =>
                  \A i \in 1..Len(resp.items) : resp.items[i].id # id

\* C22: a save under a name, in the second in which a snapshot of that name
\* was saved with another payload, returns an id that is not the id of that
\* snapshot, and leaves that snapshot as it was
C22_DistinctIds ==
    [][\A n \in SnapNames :
          save_snapshot(n, "written") =>
              \A id \in SnapIds :
                  (/\ get_snapshot(id).found
                   /\ resp = [status |-> 200, meta |-> snap_files[id].json[1]]
                   /\ snap_files[id].json[1].name = n
                   /\ snap_files[id].json[1].created_utc = clock
                   /\ snap_files[id].txt # freeze_requirements)
                  => /\ resp'.meta.id # id
                     /\ snap_files'[id] = snap_files[id]]_vars

\* C23: the files of a saved snapshot change in no step but a delete of its id
C23_Immutable ==
    [][\A id \in SnapIds :
          get_snapshot(id).found /\ ~delete_snapshot(id) =>
              snap_files'[id] = snap_files[id]]_vars

\* C24: a listing is answered with the metadata of each .json file that can
\* be loaded, each once, the later created first; files that cannot be
\* loaded are left out
C24_ListSnapshots ==
    "items" \in DOMAIN resp =>
        LET items == resp.items
            loaded == {snap_files[id].json[1] :
                          id \in {i \in SnapIds : /\ snap_files[i].json # NoJson
                                                  /\ snap_files[i].json[1].readable}}
        IN /\ resp.status = 200
           /\ Range(items) = loaded
           /\ Len(items) = Cardinality(loaded)
           /\ \A i, j \in 1..Len(items) :
                 i < j => ~StrLess(items[i].created_utc, items[j].created_utc)

\* a listing of one snapshot beside a metadata file that cannot be loaded
C24_Witness ==
    /\ "items" \in DOMAIN resp
    /\ Len(resp.items) = 1
    /\ \E id \in SnapIds : snap_files[id].json = <<CorruptMeta>>

\* C25: a save is answered with the metadata exactly when both writes were
\* done, and then both files hold what was saved; otherwise it is answered
\* with the storage error that names SNAP_DIR, and it does not leave a
\* metadata file without a payload file unless it found the files so
C25_SaveAllOrError ==
    [][\A n \in SnapNames, o \in SaveOutcomes :
          (IF o = "written" THEN "meta" \in DOMAIN resp' ELSE "dir" \in DOMAIN resp')
          /\ save_snapshot(n, o) =>
              LET before == snap_files[Base(n, clock)]
                  after == snap_files'[Base(n, clock)]
              IN /\ resp'.status = 200 <=> o = "written"
                 /\ resp'.status = 200 =>
                       /\ resp'.meta.id = Base(n, clock)
                       /\ after.json = <<resp'.meta>>
                       /\ after.txt = freeze_requirements
                 /\ resp'.status # 200 =>
                       /\ resp' = StorageError
                       /\ resp'.dir = SNAP_DIR
                       /\ Exists(after, "json") /\ ~Exists(after, "txt") => after = before]_vars

\* a save that failed at the metadata: the payload is there alone
C25_Witness ==
    /\ resp = StorageError
    /\ \E id \in SnapIds : snap_files[id].json = NoJson /\ snap_files[id].txt = env

\* C26: the count in the metadata a save returns is the number of entries
\* parse_requirements_text yields for the payload saved
C26_CountIsPinned ==
    "meta" \in DOMAIN resp =>
        resp.meta.count =
            Len(parse_requirements_text(snap_files[resp.meta.id].txt).pkgs)

\* C27: a restore of a snapshot id of which the metadata or the payload is
\* missing is answered 404 "snapshot not found" and registers no job and
\* starts no worker thread; a poll for a job id that is not in JOBS is
\* answered 404 "job not found" and leaves JOBS as it is.
C27_NotFoundNoJob ==
    [][ /\ \A id \in SnapIds :
             (~Exists(snap_files[id], "json") \/ ~Exists(snap_files[id], "txt"))
             /\ job_restore(id)
             => /\ resp' = SnapshotNotFound
                /\ JOBS' = JOBS /\ worker' = worker /\ proc' = proc
        /\ PollNotFound
             => /\ resp' = JobNotFound
                /\ JOBS' = JOBS /\ worker' = worker /\ proc' = proc ]_vars

\* the restore of a snapshot whose metadata is there and whose payload is
\* not was answered 404, and there is no job and no worker thread
C27_Witness ==
    /\ resp = SnapshotNotFound
    /\ \E id \in SnapIds : Exists(snap_files[id], "json") /\ ~Exists(snap_files[id], "txt")
    /\ \A j \in JobIds : ~JOBS[j].registered /\ worker[j] = "none" /\ proc[j] = NoProc

-----------------------------------------------------------------------------
(* Properties of the job table, under SpecPoll *)

\* C31: a job is in JOBS before its worker thread is started and before its
\* id is returned, and stays there; the id a submit returns is one no
\* earlier submit returned, and a submit leaves the other entries of JOBS as
\* they are; a poll that is answered 404 "job not found" asked for an id no
\* submit has returned
C31_JobStaysRegistered ==
    /\ [](\A j \in JobIds : worker[j] # "none" \/ proc[j].threads > 0 => JOBS[j].registered)
    /\ [][\A j \in JobIds : JOBS[j].registered => JOBS'[j].registered]_vars
    /\ [][start_job =>
             /\ resp'.job_id = handler.job_id
             /\ JOBS[resp'.job_id].registered
             /\ worker[resp'.job_id] = "none"
             /\ proc[resp'.job_id].threads = 0]_vars
    /\ [][register_job =>
             \A j \in JobIds : JOBS[j].registered => JOBS'[j] = JOBS[j]]_vars
    /\ [][PollNotFound =>
             /\ proc[handler.job_id].threads = 0
             /\ worker[handler.job_id] = "none"]_vars

\* two jobs were submitted, the workers of both read the output of their
\* processes and neither job is done, while a poll for one of them has found
\* its job
C31_Witness ==
    /\ \A j \in JobIds : JOBS[j].registered /\ worker[j] = "stdout" /\ ~JOBS[j].done
    /\ handler.pc = "rc"

-----------------------------------------------------------------------------
(* Properties of the plan as a reconciliation, under SpecDiff *)

\* a dict as the set of its <<key, version>> pairs
Versions(d) == {<<d[i].key, d[i].version>> : i \in 1..Len(d)}

\* S after the plan p: the keys of the uninstalls removed, then the key of
\* each install set to its to version
Applied(S, p) ==
    {kv \in Versions(S) : kv[1] \notin NormKeys(p.uninstalls) \cup NormKeys(p.installs)}
    \cup {<<Lower(p.installs[i].name), p.installs[i].to>> : i \in 1..Len(p.installs)}

\* C32: S with the uninstalls of diff_envs(S, T) removed and its installs set
\* is T, key for key and version for version; every install is of a key S
\* lacks or has at another version, every uninstall is of a key T lacks, and
\* no unchanged key is installed or uninstalled
C32_PlanReconciles ==
    pc = "return" =>
        LET S == SourcePkgs
            T == TargetPkgs
        IN /\ Applied(S, plan) = Versions(T)
           /\ \A i \in 1..Len(plan.installs) :
                 <<Lower(plan.installs[i].name), plan.installs[i].to>> \notin Versions(S)
           /\ \A i \in 1..Len(plan.uninstalls) :
                 Lower(plan.uninstalls[i].name) \notin DictKeys(T)
           /\ NormKeys(plan.unchanged)
                 \cap (NormKeys(plan.installs) \cup NormKeys(plan.uninstalls)) = {}

\* a plan that removes a key and changes the version of another, which make
\* T of S
C32_Witness ==
    /\ pc = "return"
    /\ plan.uninstalls # <<>>
    /\ \E i \in 1..Len(plan.installs) : plan.installs[i].from # None
    /\ Applied(SourcePkgs, plan) = Versions(TargetPkgs)

-----------------------------------------------------------------------------
(* Properties of the two previews over the snapshot directory, under SpecStore *)

\* a file of snapshot id is missing: get_snapshot(id) is (None, None)
Absent(id) == ~Exists(snap_files[id], "json") \/ ~Exists(snap_files[id], "txt")

\* the response r lists what turns the pins of the text src into those of
\* the text tgt: an install for each pin of tgt that src lacks or has at
\* another version, an uninstall for each pin of src whose key tgt lacks
FromTo(r, src, tgt) ==
    LET S == parse_requirements_text(src).pkgs
        T == parse_requirements_text(tgt).pkgs
    IN /\ r.status = 200
       /\ {<<r.installs[i].name, r.installs[i].to>> : i \in 1..Len(r.installs)} =
             {<<t.name, t.version>> :
                 t \in {e \in Range(T) : <<e.key, e.version>> \notin Versions(S)}}
       /\ {r.uninstalls[i].name : i \in 1..Len(r.uninstalls)} =
             {s.name : s \in {e \in Range(S) : e.key \notin DictKeys(T)}}
       /\ Len(r.installs) = r.counts.install
       /\ Len(r.uninstalls) = r.counts.uninstall

\* C33: a preview of a snapshot is answered with the plan from the live
\* environment to the snapshot, a diff of a and b with the plan from a to b,
\* and each is answered 404 when a snapshot it names is absent
C33_PreviewDirections ==
    [][ /\ \A id \in SnapIds :
             preview_snapshot_vs_current(id) =>
                 IF Absent(id) THEN resp' = NotFound
                 ELSE snap_files[id].json[1].readable =>
                         FromTo(resp', freeze_requirements, snap_files[id].txt)
        /\ \A a, b \in SnapIds :
             preview_snapshot_vs_snapshot(a, b) =>
                 IF Absent(a) \/ Absent(b) THEN resp' = NotFound
                 ELSE snap_files[a].json[1].readable /\ snap_files[b].json[1].readable =>
                         FromTo(resp', snap_files[a].txt, snap_files[b].txt) ]_vars

\* a response without its two counts of other lines
NoOtherCounts(r) == [r EXCEPT !.counts.other_source = 0, !.counts.other_target = 0]

\* the payload of a snapshot, parsed
ParsedSnapshot(id) == parse_requirements_text(snap_files[id].txt)

\* C34: when the payloads of two snapshots have the same entries, whatever
\* their other lines are, the previews of the two against the environment,
\* and the diffs of the two against a third snapshot in either direction,
\* are the same responses but for the counts of other lines, which are the
\* numbers of other lines of the sides; and so are the previews of one
\* snapshot against two environments with the same entries
C34_OthersNotDiffed ==
    LET found == {id \in SnapIds : get_snapshot(id).found}
        cur == parse_requirements_text(freeze_requirements)
    IN /\ \A a, b \in found :
             ParsedSnapshot(a).pkgs = ParsedSnapshot(b).pkgs =>
                 /\ NoOtherCounts(PreviewBody("preview", cur, ParsedSnapshot(a)))
                       = NoOtherCounts(PreviewBody("preview", cur, ParsedSnapshot(b)))
                 /\ \A c \in found :
                       /\ NoOtherCounts(PreviewBody("diff", ParsedSnapshot(a), ParsedSnapshot(c)))
                             = NoOtherCounts(PreviewBody("diff", ParsedSnapshot(b), ParsedSnapshot(c)))
                       /\ NoOtherCounts(PreviewBody("diff", ParsedSnapshot(c), ParsedSnapshot(a)))
                             = NoOtherCounts(PreviewBody("diff", ParsedSnapshot(c), ParsedSnapshot(b)))
                       /\ PreviewBody("diff", ParsedSnapshot(a), ParsedSnapshot(c)).counts.other_source
                             = Len(ParsedSnapshot(a).others)
                       /\ PreviewBody("diff", ParsedSnapshot(c), ParsedSnapshot(a)).counts.other_target
                             = Len(ParsedSnapshot(a).others)
       /\ \A t \in StoreTexts, a \in found :
             parse_requirements_text(t).pkgs = cur.pkgs =>
                 PreviewBody("preview", parse_requirements_text(t), ParsedSnapshot(a))
                    = PreviewBody("preview", cur, ParsedSnapshot(a))

\* the diff of two snapshots with the same entries, of which only the second
\* has an other line, was answered: nothing to do, one other line
C34_Witness ==
    /\ "counts" \in DOMAIN resp
    /\ resp.op = "diff"
    /\ resp.counts.other_source = 0 /\ resp.counts.other_target = 1
    /\ resp.installs = <<>> /\ resp.uninstalls = <<>> /\ resp.commands = <<>>
    /\ \E a, b \in SnapIds :
          /\ get_snapshot(a).found /\ get_snapshot(b).found
          /\ ParsedSnapshot(a).pkgs = ParsedSnapshot(b).pkgs
          /\ ParsedSnapshot(a).others = <<>> /\ ParsedSnapshot(b).others # <<>>
          /\ resp = PreviewBody("diff", ParsedSnapshot(a), ParsedSnapshot(b))

-----------------------------------------------------------------------------
(* Properties of the restore job, under SpecRestore *)

\* the command of a restore: pip install -r and one path
IsRestoreCmd(c) == Len(c) = 6 /\ c[4] = "install" /\ c[5] = "-r"

\* what a preview of snapshot id answers in this state
PreviewNow(id) ==
    PreviewBody("preview", parse_requirements_text(freeze_requirements),
                parse_requirements_text(snap_files[id].txt))

\* C35: the restore of a snapshot starts a job with the command pip install
\* -r of the snapshot's payload file, its thread is given that command, and
\* it starts the command once and no other; whenever the preview of that
\* snapshot has uninstalls, the first command of the preview is the
\* uninstall, and the command of the restore job is none
C35_RestoreInstallsOnly ==
    /\ [][\A id \in SnapIds :
             get_snapshot(id).found /\ job_restore(id) =>
                 /\ IsRestoreCmd(handler'.cmd)
                 /\ handler'.cmd[6] = get_snapshot(id).req_path
                 /\ handler'.pc = "register_job"]_vars
    /\ [][start_job => proc'[handler.job_id].cmd = handler.cmd]_vars
    /\ [][\A j \in JobIds : proc[j].threads = 1 => proc'[j].cmd = proc[j].cmd]_vars
    /\ [](\A j \in JobIds :
             /\ proc[j].launched <= 1
             /\ IsRestoreCmd(proc[j].cmd) =>
                   /\ proc[j].cmd[6] \in SnapIds
                   /\ Exists(snap_files[proc[j].cmd[6]], "txt")
                   /\ LET p == PreviewNow(proc[j].cmd[6])
                      IN p.uninstalls # <<>> =>
                            /\ p.commands[1][1] = UNINSTALL_CMD
                            /\ proc[j].cmd[4] # "uninstall")

\* a restore job has ended with status 0, having started its one command,
\* for a snapshot whose preview uninstalls a package of the environment
C35_Witness ==
    \E j \in JobIds :
        /\ IsRestoreCmd(proc[j].cmd)
        /\ proc[j].launched = 1
        /\ JOBS[j].done /\ JOBS[j].returncode = {0}
        /\ PreviewNow(proc[j].cmd[6]).uninstalls # <<>>

-----------------------------------------------------------------------------
(* Properties of a saved snapshot over time, under SpecStore *)

\* the ids of a listing, for the order os.listdir names the files in
ListedIds(order) ==
    {list_snapshots(order)[i].id : i \in 1..Len(list_snapshots(order))}

\* C36: a save that is answered with metadata of the id X leaves X such that
\* get_snapshot(X) is that metadata with the path of the payload, which
\* holds what pip freeze printed; from then on every step that is not a
\* delete of X leaves the same metadata and the same payload for
\* get_snapshot(X); and every listing has the ids get_snapshot finds
C36_SavedStaysRetrievable ==
    /\ [][\A n \in SnapNames, X \in SnapIds :
             "meta" \in DOMAIN resp' /\ save_snapshot(n, "written") /\ X = resp'.meta.id =>
                 /\ get_snapshot(X)'.found
                 /\ get_snapshot(X)'.meta = <<resp'.meta>>
                 /\ get_snapshot(X)'.req_path = X
                 /\ snap_files'[X].txt = freeze_requirements]_vars
    /\ [][\A X \in SnapIds :
             get_snapshot(X).found /\ ~delete_snapshot(X) =>
                 /\ get_snapshot(X)'.found
                 /\ get_snapshot(X)'.meta = get_snapshot(X).meta
                 /\ snap_files'[X].txt = snap_files[X].txt]_vars
    /\ [](\A X \in SnapIds, order \in ListOrders :
             get_snapshot(X).found => X \in ListedIds(order))

====
